---- MODULE Spec2Model ----
(***************************************************************************)
(* Byte-level lexing primitives of foamlib's OpenFOAM ASCII parser:        *)
(*   - skip            (_files/_parsing/_skip_ext.c and _c/skip.c)         *)
(*   - parse_number    (_files/_parsing/_skip_ext.c, the number lexer)     *)
(*   - parse_ascii_list, parse_ascii_faces_list                            *)
(*                     (_files/_parsing/_c_ext/parse_ascii.c)              *)
(* A buffer is a sequence of one-character strings; positions are 0-based  *)
(* as in the C code, so contents[i] of the code is At(contents, i).        *)
(* One action is one call (the number lexer) or one iteration of the       *)
(* function's outer scanning loop (skip and the list parsers); the build   *)
(* of skip.c's whitespace tables is one action per statement and thread.   *)
(***************************************************************************)
EXTENDS Integers, Sequences, FiniteSets, TLC

VARIABLES
    contents,     \* the caller's byte buffer (never written)
    call,         \* the arguments of the call in progress
    pc,           \* "idle", the running function's loop, or "done"
    pos,          \* the cursor (pos / p of the running function)
    values,       \* the list parsers' scratch storage values[0..count)
    paren_depth,  \* parse_ascii_list's paren_depth
    inside_face,  \* parse_ascii_faces_list's inside_face
    ret,          \* what the call returned or raised
    initialized,  \* skip.c: init_whitespace_tables' static flag
    tables,       \* skip.c: the bytes whose entry is 1, per table
    threads       \* skip.c: each thread's place in a call of skip

call_vars == <<contents, call, pc, pos, values, paren_depth, inside_face, ret>>

table_vars == <<initialized, tables, threads>>

vars == <<contents, call, pc, pos, values, paren_depth, inside_face, ret,
          initialized, tables, threads>>

-----------------------------------------------------------------------------
(* Bounds of the model.                                                    *)

MaxSkipLen == 5
MaxLexLen == 4
MaxListLen == 4
MaxStructLen == 3
MaxTokLen == 4
MaxCursorLen == 4
NumThreads == 2

-----------------------------------------------------------------------------
(* Bytes.                                                                  *)

At(b, i) == b[i + 1]

Digits == {"0", "1", "2", "3", "4", "5", "6", "7", "8", "9"}

LowerLetters ==
    {"a", "b", "c", "d", "e", "f", "g", "h", "i", "j", "k", "l", "m",
     "n", "o", "p", "q", "r", "s", "t", "u", "v", "w", "x", "y", "z"}

UpperLetters ==
    {"A", "B", "C", "D", "E", "F", "G", "H", "I", "J", "K", "L", "M",
     "N", "O", "P", "Q", "R", "S", "T", "U", "V", "W", "X", "Y", "Z"}

\* The bytes the model's buffers are drawn from, per group of operations.
SkipAlphabet == {" ", "\n", "/", "*", "\\", "a"}
LexAlphabet == {"1", ".", "e", "-", "n", "a", " ", "x"}
ListAlphabet == {"1", " ", "(", ")", "/", "*", "."}
StructAlphabet == {"1", " ", "(", ")", "{", "}", "[", "]", ";"}
TokAlphabet == {"1", "2", "e", "-", " ", "(", ")"}
CursorAlphabet == {"1", "\n", "/", "*", "\\", ")"}

RECURSIVE BuffersOf(_, _)
BuffersOf(alphabet, n) ==
    IF n = 0 THEN {<<>>}
    ELSE LET shorter == BuffersOf(alphabet, n - 1)
         IN  shorter \cup {Append(b, c) : b \in {s \in shorter : Len(s) = n - 1},
                                          c \in alphabet}

-----------------------------------------------------------------------------
(* Results.                                                                *)

NoArgs ==
    [fn |-> "none", start_pos |-> 0, newline_ok |-> TRUE, target |-> "none",
     is_float |-> FALSE, elshape |-> 0]

NoRet ==
    [status |-> "none", end |-> -1, msg |-> "", kind |-> "", text |-> <<>>,
     array |-> <<>>, dims |-> <<>>]

\* return PyLong_FromSsize_t(pos)
Returned(p) == [NoRet EXCEPT !.status = "ok", !.end = p]

\* FoamFileDecodeError(contents, offset, expected=...)
DecodeError(offset, expected) ==
    [NoRet EXCEPT !.status = "FoamFileDecodeError", !.end = offset, !.msg = expected]

\* PyErr_SetString(PyExc_ValueError, msg); return NULL
ValueError(msg) == [NoRet EXCEPT !.status = "ValueError", !.msg = msg]

\* raise_parse_error(contents_obj, pos, expected)
ParseError(offset, expected) ==
    [NoRet EXCEPT !.status = "ParseError", !.end = offset, !.msg = expected]

-----------------------------------------------------------------------------
(* skip of _files/_parsing/_skip_ext.c                                     *)

\* The whitespace test of the inner loop (vertical tab, also in the code's
\* test, has no TLA+ string escape and is in no buffer of the model).
skip_is_space(c, newline_ok) ==
    \/ c \in {" ", "\t", "\r", "\f"}
    \/ (c = "\n" /\ newline_ok)

RECURSIVE skip_whitespace(_, _, _)
skip_whitespace(b, p, newline_ok) ==
    IF p < Len(b) /\ skip_is_space(At(b, p), newline_ok)
    THEN skip_whitespace(b, p + 1, newline_ok)
    ELSE p

\* skip_line_comment without the line continuation.
RECURSIVE skip_line_comment_no_continuation(_, _, _)
skip_line_comment_no_continuation(b, p, newline_ok) ==
    IF p < Len(b)
    THEN IF At(b, p) = "\n"
         THEN (IF newline_ok THEN p + 1 ELSE p)
         ELSE skip_line_comment_no_continuation(b, p + 1, newline_ok)
    ELSE p

\* The scan after "//": to the newline (consumed iff newline_ok) or the end.
RECURSIVE skip_line_comment(_, _, _)
skip_line_comment(b, p, newline_ok) ==
    IF p < Len(b)
    THEN IF At(b, p) = "\n"
         THEN (IF newline_ok THEN p + 1 ELSE p)
         ELSE IF At(b, p) = "\\" /\ p + 1 < Len(b) /\ At(b, p + 1) = "\n"
              THEN skip_line_comment(b, p + 2, newline_ok)
              ELSE skip_line_comment(b, p + 1, newline_ok)
    ELSE p

\* skip_block_comment accepting the opener's own "*" as the closer's.
RECURSIVE skip_block_comment_overlap(_, _)
skip_block_comment_overlap(b, p) ==
    IF p < Len(b)
    THEN IF At(b, p - 1) = "*" /\ At(b, p) = "/"
         THEN [found |-> TRUE, pos |-> p + 1]
         ELSE skip_block_comment_overlap(b, p + 1)
    ELSE [found |-> FALSE, pos |-> p]

\* The scan after "/*": found, and the cursor where the scan stopped.
RECURSIVE skip_block_comment(_, _)
skip_block_comment(b, p) ==
    IF p + 1 < Len(b)
    THEN IF At(b, p) = "*" /\ At(b, p + 1) = "/"
         THEN [found |-> TRUE, pos |-> p + 2]
         ELSE skip_block_comment(b, p + 1)
    ELSE [found |-> FALSE, pos |-> p]

\* What the outer loop does after a "//" comment: continue.
skip_after_line_comment_break == "break"
skip_after_line_comment == "continue"

\* One iteration of while (1): how it ends and where the cursor is then.
skip_iteration(b, p0, newline_ok) ==
    LET p == skip_whitespace(b, p0, newline_ok)
    IN  IF p + 1 >= Len(b)
        THEN [next |-> "break", pos |-> p]
        ELSE IF At(b, p) = "/" /\ At(b, p + 1) = "/"
        THEN [next |-> skip_after_line_comment,
              pos |-> skip_line_comment(b, p + 2, newline_ok)]
        ELSE IF At(b, p) = "/" /\ At(b, p + 1) = "*"
        THEN LET r == skip_block_comment(b, p + 2)
             IN  [next |-> IF r.found THEN "continue" ELSE "raise", pos |-> r.pos]
        ELSE [next |-> "break", pos |-> p]

\* The whole call, iteration after iteration.
RECURSIVE skip(_, _, _)
skip(b, p, newline_ok) ==
    LET it == skip_iteration(b, p, newline_ok)
    IN  CASE it.next = "continue" -> skip(b, it.pos, newline_ok)
          [] it.next = "break" -> Returned(it.pos)
          [] OTHER -> DecodeError(Len(b), "*/")

-----------------------------------------------------------------------------
(* skip of _c/skip.c                                                       *)

\* is_whitespace[] and is_whitespace_no_newline[] as init_whitespace_tables
\* leaves them (vertical tab as above).
is_whitespace == {" ", "\n", "\t", "\r", "\f"}
is_whitespace_no_newline == is_whitespace \ {"\n"}

ws_table(newline_ok) == IF newline_ok THEN is_whitespace ELSE is_whitespace_no_newline

RECURSIVE skip_c_whitespace(_, _, _)
skip_c_whitespace(b, p, newline_ok) ==
    IF p < Len(b) /\ At(b, p) \in ws_table(newline_ok)
    THEN skip_c_whitespace(b, p + 1, newline_ok)
    ELSE p

RECURSIVE skip_c_line_comment(_, _, _)
skip_c_line_comment(b, p, newline_ok) ==
    IF p < Len(b)
    THEN IF At(b, p) = "\n"
         THEN (IF newline_ok THEN p + 1 ELSE p)
         ELSE LET q == IF At(b, p) = "\\" /\ p + 1 < Len(b) /\ At(b, p + 1) = "\n"
                       THEN p + 1 ELSE p
              IN  skip_c_line_comment(b, q + 1, newline_ok)
    ELSE p

RECURSIVE skip_c_block_comment(_, _)
skip_c_block_comment(b, p) ==
    IF p + 1 < Len(b)
    THEN IF At(b, p) = "*" /\ At(b, p + 1) = "/"
         THEN [found |-> TRUE, pos |-> p + 2]
         ELSE skip_c_block_comment(b, p + 1)
    ELSE [found |-> FALSE, pos |-> p]

\* The test of while (pos < len) and one run of its body.
skip_c_iteration(b, p0, newline_ok) ==
    IF ~(p0 < Len(b))
    THEN [next |-> "break", pos |-> p0]
    ELSE
    LET p == skip_c_whitespace(b, p0, newline_ok)
    IN  IF p + 1 >= Len(b)
        THEN [next |-> "break", pos |-> p]
        ELSE IF At(b, p) = "/" /\ At(b, p + 1) = "/"
        THEN [next |-> "continue", pos |-> skip_c_line_comment(b, p + 2, newline_ok)]
        ELSE IF At(b, p) = "/" /\ At(b, p + 1) = "*"
        THEN LET r == skip_c_block_comment(b, p + 2)
             IN  [next |-> IF r.found THEN "continue" ELSE "raise", pos |-> r.pos]
        ELSE [next |-> "break", pos |-> p]

RECURSIVE skip_c(_, _, _)
skip_c(b, p, newline_ok) ==
    LET it == skip_c_iteration(b, p, newline_ok)
    IN  CASE it.next = "continue" -> skip_c(b, it.pos, newline_ok)
          [] it.next = "break" -> Returned(it.pos)
          [] OTHER -> DecodeError(Len(b), "*/")

-----------------------------------------------------------------------------
(* skip.c: init_whitespace_tables, statement by statement, in the threads  *)
(* that call skip.  Nothing orders one thread's statements with            *)
(* another's: the flag and the tables are plain statics, and the function  *)
(* takes no lock.                                                          *)

Threads == 1..NumThreads

\* const char *ws = " \n\t\r\f\v" (vertical tab as above).
ws == <<" ", "\n", "\t", "\r", "\f">>

\* static int is_whitespace[256] = {0}; is_whitespace_no_newline[256] = {0};
ZeroTables == [is_whitespace |-> {}, is_whitespace_no_newline |-> {}]

\* The tables as a completed init_whitespace_tables leaves them.
BuiltTables ==
    [is_whitespace |-> is_whitespace,
     is_whitespace_no_newline |-> is_whitespace_no_newline]

\* A thread: where it is in skip, init's loop pointer c, the call's
\* newline_ok, and the byte it looked up with the entry it read.
IdleThread ==
    [pc |-> "idle", c |-> 1, newline_ok |-> TRUE, byte |-> " ", entry |-> 0]

At_thread(t, next) == threads' = [threads EXCEPT ![t] = next]

\* skip(contents, pos, newline_ok) is called: on to init_whitespace_tables().
ThreadCall(t, newline_ok) ==
    /\ threads[t].pc = "idle"
    /\ At_thread(t, [IdleThread EXCEPT !.pc = "test", !.newline_ok = newline_ok])
    /\ UNCHANGED <<initialized, tables>>

\* if (initialized) return;
InitTest(t) ==
    /\ threads[t].pc = "test"
    /\ At_thread(t, [threads[t] EXCEPT
                       !.pc = IF initialized = 1 THEN "lookup" ELSE "for", !.c = 1])
    /\ UNCHANGED <<initialized, tables>>

\* for (...; *c; ...) is_whitespace[(unsigned char)*c] = 1;
InitLoop(t) ==
    /\ threads[t].pc = "for"
    /\ IF threads[t].c > Len(ws)
       THEN /\ At_thread(t, [threads[t] EXCEPT !.pc = "clear"])
            /\ UNCHANGED tables
       ELSE /\ tables' = [tables EXCEPT !.is_whitespace = @ \cup {ws[threads[t].c]}]
            /\ At_thread(t, [threads[t] EXCEPT !.pc = "for_no_newline"])
    /\ UNCHANGED initialized

\* is_whitespace_no_newline[(unsigned char)*c] = 1; c++
InitLoopNoNewline(t) ==
    /\ threads[t].pc = "for_no_newline"
    /\ tables' = [tables EXCEPT !.is_whitespace_no_newline = @ \cup {ws[threads[t].c]}]
    /\ At_thread(t, [threads[t] EXCEPT !.pc = "for", !.c = @ + 1])
    /\ UNCHANGED initialized

\* is_whitespace_no_newline['\n'] = 0;
InitClearNewline(t) ==
    /\ threads[t].pc = "clear"
    /\ tables' = [tables EXCEPT !.is_whitespace_no_newline = @ \ {"\n"}]
    /\ At_thread(t, [threads[t] EXCEPT !.pc = "flag"])
    /\ UNCHANGED initialized

\* initialized = 1;
InitSetFlag(t) ==
    /\ threads[t].pc = "flag"
    /\ initialized' = 1
    /\ At_thread(t, [threads[t] EXCEPT !.pc = "lookup"])
    /\ UNCHANGED tables

\* ws_table = newline_ok ? is_whitespace : is_whitespace_no_newline;
\* ws_table[contents[pos]], for a byte of the call's buffer.
Lookup(t, byte) ==
    /\ threads[t].pc = "lookup"
    /\ LET ws_table_now == IF threads[t].newline_ok
                           THEN tables.is_whitespace
                           ELSE tables.is_whitespace_no_newline
       IN  At_thread(t, [threads[t] EXCEPT
                           !.pc = "looked", !.byte = byte,
                           !.entry = IF byte \in ws_table_now THEN 1 ELSE 0])
    /\ UNCHANGED <<initialized, tables>>

\* The call returns; the thread may call again.
ThreadReturn(t) ==
    /\ threads[t].pc = "looked"
    /\ At_thread(t, IdleThread)
    /\ UNCHANGED <<initialized, tables>>

\* The bytes looked up: a space, a newline, and a byte that is no whitespace.
LookupBytes == {" ", "\n", "a"}

InitTables ==
    /\ contents = <<>>
    /\ call = NoArgs
    /\ pc = "idle"
    /\ pos = 0
    /\ values = <<>>
    /\ paren_depth = 0
    /\ inside_face = FALSE
    /\ ret = NoRet
    /\ initialized = 0
    /\ tables = ZeroTables
    /\ threads = [t \in Threads |-> IdleThread]

NextTables ==
    /\ UNCHANGED call_vars
    /\ \E t \in Threads :
          \/ \E newline_ok \in BOOLEAN : ThreadCall(t, newline_ok)
          \/ InitTest(t)
          \/ InitLoop(t)
          \/ InitLoopNoNewline(t)
          \/ InitClearNewline(t)
          \/ InitSetFlag(t)
          \/ \E byte \in LookupBytes : Lookup(t, byte)
          \/ ThreadReturn(t)

SpecTables == InitTables /\ [][NextTables]_vars

\* One call at a time, as everywhere else in the model: the tables are
\* built and no thread is inside init_whitespace_tables.
TablesBuilt ==
    /\ initialized = 1
    /\ tables = BuiltTables
    /\ threads = [t \in Threads |-> IdleThread]

-----------------------------------------------------------------------------
(* The calls of skip, one action per iteration of the outer loop.          *)

Idle == pc = "idle"

StartSkip(fn, p, newline_ok) ==
    /\ Idle
    /\ fn \in {"skip", "skip_c"}
    /\ call' = [NoArgs EXCEPT !.fn = fn, !.start_pos = p, !.newline_ok = newline_ok]
    /\ pc' = fn
    /\ pos' = p
    /\ UNCHANGED <<contents, values, paren_depth, inside_face, ret>>

SkipStep(it) ==
    /\ pos' = it.pos
    /\ pc' = IF it.next = "continue" THEN pc ELSE "done"
    /\ ret' = CASE it.next = "continue" -> ret
                [] it.next = "break" -> Returned(it.pos)
                [] OTHER -> DecodeError(Len(contents), "*/")
    /\ UNCHANGED <<contents, call, values, paren_depth, inside_face>>

SkipIteration ==
    /\ pc = "skip"
    /\ SkipStep(skip_iteration(contents, pos, call.newline_ok))

SkipCIteration ==
    /\ pc = "skip_c"
    /\ SkipStep(skip_c_iteration(contents, pos, call.newline_ok))

InitSkip ==
    /\ contents \in BuffersOf(SkipAlphabet, MaxSkipLen)
    /\ call = NoArgs
    /\ pc = "idle"
    /\ pos = 0
    /\ values = <<>>
    /\ paren_depth = 0
    /\ inside_face = FALSE
    /\ ret = NoRet
    /\ TablesBuilt

NextSkip ==
    /\ UNCHANGED table_vars
    /\ \/ \E fn \in {"skip", "skip_c"}, p \in 0..Len(contents), newline_ok \in BOOLEAN :
             StartSkip(fn, p, newline_ok)
       \/ SkipIteration
       \/ SkipCIteration

SpecSkip == InitSkip /\ [][NextSkip]_vars

-----------------------------------------------------------------------------
(* Properties of skip.                                                     *)

Min(S) == CHOOSE x \in S : \A y \in S : x <= y

InSkip == pc \in {"skip", "skip_c"}

\* The whitespace set of a call, as the specification gives it.
SpecWhitespace(newline_ok) ==
    {" ", "\t", "\r", "\f"} \cup (IF newline_ok THEN {"\n"} ELSE {})

\* The first index at or after p that holds no whitespace (the length if none).
FirstNonSpace(b, p, newline_ok) ==
    Min({i \in p..Len(b) :
            i = Len(b) \/ At(b, i) \notin SpecWhitespace(newline_ok)})

\* Whether the two bytes at o are c1 c2.
OpenerAt(b, o, c1, c2) == o + 1 < Len(b) /\ At(b, o) = c1 /\ At(b, o + 1) = c2

\* C3: skip is idempotent: when a call of skip returns q, a call from q with
\* the same newline_ok returns q.
C3_SkipIdempotent ==
    (pc = "done" /\ ret.status = "ok") =>
        /\ call.fn = "skip" => skip(contents, ret.end, call.newline_ok) = Returned(ret.end)
        /\ call.fn = "skip_c" => skip_c(contents, ret.end, call.newline_ok) = Returned(ret.end)

\* C3 witness: a call that skipped a comment and returned before the end.
C3_Witness ==
    /\ pc = "done" /\ call.fn = "skip" /\ ret.status = "ok"
    /\ OpenerAt(contents, call.start_pos, "/", "/")
    /\ ret.end > call.start_pos + 2
    /\ ret.end < Len(contents)

\* The newlines from index from on that no backslash immediately precedes.
LineTerminators(b, from) ==
    {n \in from..(Len(b) - 1) : At(b, n) = "\n" /\ At(b, n - 1) # "\\"}

\* C4: a "//" comment ends at the first newline not immediately preceded by a
\* backslash (at the end of the buffer if there is none); the newline is
\* consumed iff newline_ok, and with newline_ok false the call returns the
\* index of that newline.
C4_LineComment ==
    [][ InSkip =>
        LET o == FirstNonSpace(contents, pos, call.newline_ok)
            T == LineTerminators(contents, o + 2)
        IN  /\ OpenerAt(contents, o, "/", "/") =>
                /\ pc' = pc
                /\ pos' = IF T = {} THEN Len(contents)
                          ELSE IF call.newline_ok THEN Min(T) + 1 ELSE Min(T)
            /\ (pos < Len(contents) /\ At(contents, pos) = "\n" /\ ~call.newline_ok) =>
                /\ pc' = "done"
                /\ ret' = Returned(pos)
      ]_vars

\* C4 witness: with newline_ok false, a comment holding a line continuation was
\* left at its terminating newline.
C4_Witness ==
    /\ pc = "done" /\ InSkip = FALSE /\ call.fn \in {"skip", "skip_c"}
    /\ ~call.newline_ok /\ ret.status = "ok"
    /\ OpenerAt(contents, call.start_pos, "/", "/")
    /\ ret.end < Len(contents) /\ At(contents, ret.end) = "\n"
    /\ \E i \in (call.start_pos + 2)..(ret.end - 2) :
          At(contents, i) = "\\" /\ At(contents, i + 1) = "\n"

\* The indices from index from on where "*/" starts.
BlockClosers(b, from) ==
    {k \in from..(Len(b) - 2) : At(b, k) = "*" /\ At(b, k + 1) = "/"}

\* C5: skip raises the decode error (offset = buffer length, expected "*/")
\* exactly when the "/*" its scan reaches has no "*/" starting at or after the
\* byte following the opener; otherwise the scan goes on after the first one.
C5_UnterminatedComment ==
    [][ InSkip =>
        LET o == FirstNonSpace(contents, pos, call.newline_ok)
            open == OpenerAt(contents, o, "/", "*")
            K == BlockClosers(contents, o + 2)
        IN  /\ (open /\ K = {}) =>
                /\ pc' = "done"
                /\ ret' = DecodeError(Len(contents), "*/")
            /\ (open /\ K # {}) =>
                /\ pc' = pc
                /\ pos' = Min(K) + 2
                /\ ret' = ret
            /\ ~open => ret'.status # "FoamFileDecodeError"
      ]_vars

\* C5 witness: "/*/" was reported unterminated.
C5_Witness ==
    /\ pc = "done" /\ call.fn \in {"skip", "skip_c"}
    /\ ret = DecodeError(Len(contents), "*/")
    /\ OpenerAt(contents, call.start_pos, "/", "*")
    /\ call.start_pos + 2 < Len(contents)
    /\ At(contents, call.start_pos + 2) = "/"

-----------------------------------------------------------------------------
(* parse_number of _files/_parsing/_skip_ext.c (the number lexer)          *)

\* The lookup tables as init_lookup_tables fills them.
IS_POSSIBLE_FLOAT ==
    Digits \cup {".", "-", "+", "e", "E", "i", "n", "f", "n", "a", "t", "y",
                 "I", "N", "F", "N", "A", "T", "Y"}

IS_POSSIBLE_INTEGER == Digits \cup {"-", "+"}

IS_TOKEN_CONTINUATION_no_dot ==
    (LowerLetters \cup UpperLetters \cup {"_", "#", "$"})
    \cup Digits
    \cup {"_", "<", ">", "#", "$", ":", "+", "-", "*", "/", "|", "^", "%",
          "&", "=", "!"}

IS_TOKEN_CONTINUATION ==
    (LowerLetters \cup UpperLetters \cup {"_", "#", "$"})
    \cup Digits
    \cup {".", "_", "<", ">", "#", "$", ":", "+", "-", "*", "/", "|", "^", "%",
          "&", "=", "!"}

\* is_numeric = (target_type == TARGET_INT) ? ... : ...
is_numeric(target) ==
    IF target = "int" THEN IS_POSSIBLE_INTEGER ELSE IS_POSSIBLE_FLOAT

\* while (end < len && is_numeric[contents[end]]) end++;
RECURSIVE numeric_run_end(_, _, _)
numeric_run_end(b, end, target) ==
    IF end < Len(b) /\ At(b, end) \in is_numeric(target)
    THEN numeric_run_end(b, end + 1, target)
    ELSE end

\* if (end < len && _IS_TOKEN_CONTINUATION[contents[end]])
followed_by_token_unchecked(b, end) == FALSE
followed_by_token(b, end) == end < Len(b) /\ At(b, end) \in IS_TOKEN_CONTINUATION

\* if (target_type != TARGET_FLOAT): the integer parse is tried first.
tries_integer_only_for_int(target) == target = "int"
tries_integer(target) == target # "float"

RECURSIVE digits_end(_, _)
digits_end(t, i) ==
    IF i < Len(t) /\ At(t, i) \in Digits THEN digits_end(t, i + 1) ELSE i

AfterSign(t, i) == IF i < Len(t) /\ At(t, i) \in {"+", "-"} THEN i + 1 ELSE i

LowerOf ==
    [c \in {"N", "A", "I", "F", "T", "Y"} |->
        CASE c = "N" -> "n" [] c = "A" -> "a" [] c = "I" -> "i"
          [] c = "F" -> "f" [] c = "T" -> "t" [] c = "Y" -> "y"]

ToLower(c) == IF c \in DOMAIN LowerOf THEN LowerOf[c] ELSE c

\* strncasecmp(text + i, word, Len(word)) == 0 with the bytes in reach.
MatchesNoCase(t, i, word) ==
    /\ i + Len(word) <= Len(t)
    /\ \A k \in 1..Len(word) : ToLower(At(t, i + k - 1)) = word[k]

\* PyLong_FromString(chars, NULL, 10) on a run of the table's bytes: an
\* optional sign and one or more digits, and nothing else (the run holds no
\* whitespace and no underscore for it to strip or skip).
PyLong_FromString_ok(t) ==
    LET i == AfterSign(t, 0)
    IN  i < Len(t) /\ digits_end(t, i) = Len(t)

\* PyFloat_FromString(chars): an optional sign, then nan, inf or infinity in
\* any case, or digits with an optional point and an optional exponent, with a
\* digit in the mantissa and in the exponent.
PyFloat_FromString_ok(t) ==
    LET i0 == AfterSign(t, 0)
        i1 == digits_end(t, i0)
        dot == i1 < Len(t) /\ At(t, i1) = "."
        i2 == IF dot THEN digits_end(t, i1 + 1) ELSE i1
        mantissa == (i1 - i0) + (IF dot THEN i2 - (i1 + 1) ELSE 0)
        exp == i2 < Len(t) /\ At(t, i2) \in {"e", "E"}
        i3 == IF exp THEN AfterSign(t, i2 + 1) ELSE i2
        i4 == IF exp THEN digits_end(t, i3) ELSE i2
    IN  \/ \E w \in {<<"n", "a", "n">>, <<"i", "n", "f">>,
                     <<"i", "n", "f", "i", "n", "i", "t", "y">>} :
              MatchesNoCase(t, i0, w) /\ i0 + Len(w) = Len(t)
        \/ (mantissa >= 1 /\ (exp => i4 > i3) /\ i4 = Len(t))

\* return (value, end): the value's type and the bytes it was made from.
Lexed(kind, text, end) ==
    [NoRet EXCEPT !.status = "ok", !.end = end, !.kind = kind, !.text = text]

parse_number(b, p, target) ==
    LET end == numeric_run_end(b, p, target)
        chars == SubSeq(b, p + 1, end)
    IN  IF followed_by_token(b, end) THEN ParseError(p, "number")
        ELSE IF p = end THEN ParseError(p, "number")
        ELSE IF tries_integer(target) /\ PyLong_FromString_ok(chars)
        THEN Lexed("int", chars, end)
        ELSE IF target = "int" THEN ParseError(p, "integer")
        ELSE IF PyFloat_FromString_ok(chars) THEN Lexed("float", chars, end)
        ELSE ParseError(p, IF target = "float" THEN "float" ELSE "number")

Targets == {"int", "float", "int_or_float"}

CallParseNumber(p, target) ==
    /\ Idle
    /\ call' = [NoArgs EXCEPT !.fn = "parse_number", !.start_pos = p, !.target = target]
    /\ pc' = "done"
    /\ pos' = p
    /\ ret' = parse_number(contents, p, target)
    /\ UNCHANGED <<contents, values, paren_depth, inside_face>>

InitLex ==
    /\ contents \in BuffersOf(LexAlphabet, MaxLexLen)
    /\ call = NoArgs
    /\ pc = "idle"
    /\ pos = 0
    /\ values = <<>>
    /\ paren_depth = 0
    /\ inside_face = FALSE
    /\ ret = NoRet
    /\ TablesBuilt

NextLex ==
    /\ UNCHANGED table_vars
    /\ \E p \in 0..Len(contents), target \in Targets : CallParseNumber(p, target)

SpecLex == InitLex /\ [][NextLex]_vars

-----------------------------------------------------------------------------
(* Properties of the number lexer.                                         *)

LexDone == pc = "done" /\ call.fn = "parse_number"

\* A literal with a decimal point or an exponent marker starts at p: digits,
\* after an optional sign, followed by "." or by "e"/"E".
FloatShapedAt(b, p) ==
    LET i0 == AfterSign(b, p)
        i1 == digits_end(b, i0)
    IN  i1 > i0 /\ i1 < Len(b) /\ At(b, i1) \in {".", "e", "E"}

\* C6 as stated: with target Integer, a literal with a decimal point or an
\* exponent marker is refused with a positional error expecting "integer".
C6_ExpectedInteger ==
    (LexDone /\ call.target = "int" /\ FloatShapedAt(contents, call.start_pos)) =>
        ret = ParseError(call.start_pos, "integer")

\* C6 as amended: with target Integer, a literal with a decimal point or an
\* exponent marker is refused with a positional error, at the literal's first
\* byte, expecting "number".
C6_ExpectedNumber ==
    (LexDone /\ call.target = "int" /\ FloatShapedAt(contents, call.start_pos)) =>
        ret = ParseError(call.start_pos, "number")

\* C6 witness: "1.1" was lexed with target Integer and refused.
C6_Witness ==
    /\ LexDone /\ call.target = "int" /\ call.start_pos = 0
    /\ contents = <<"1", ".", "1">>
    /\ ret.status = "ParseError"

\* The token-continuation set as the specification lists it.
SpecTokenContinuation ==
    LowerLetters \cup UpperLetters \cup Digits \cup {"_", "."}
    \cup {"<", ">", "#", "$", ":", "+", "-", "*", "/", "|", "^", "%", "&", "=", "!"}

\* C7: a successful lex ends at the end of the buffer or before a byte outside
\* the token-continuation set, and returns the cursor just past the literal:
\* the bytes from pos to end, at least one, none of them whitespace.
C7_NoTokenContinuation ==
    (LexDone /\ ret.status = "ok") =>
        /\ call.start_pos < ret.end /\ ret.end <= Len(contents)
        /\ (ret.end = Len(contents)
            \/ At(contents, ret.end) \notin SpecTokenContinuation)
        /\ ret.text = SubSeq(contents, call.start_pos + 1, ret.end)
        /\ \A i \in call.start_pos..(ret.end - 1) :
              At(contents, i) \notin SpecWhitespace(TRUE)

\* C7 witness: a literal was lexed that a space follows, and the cursor is at
\* the space.
C7_Witness ==
    /\ LexDone /\ ret.status = "ok"
    /\ ret.end < Len(contents) /\ At(contents, ret.end) = " "

\* The literal's shape: no decimal point, no exponent marker, not nan/inf.
IntegerShaped(t) ==
    /\ \A k \in 1..Len(t) : t[k] \notin {".", "e", "E"}
    /\ \A w \in {<<"n", "a", "n">>, <<"i", "n", "f">>} :
          ~MatchesNoCase(t, AfterSign(t, 0), w)

\* C8 as stated: under any target the value is an Integer iff the literal has
\* no decimal point and no exponent marker and is not nan/inf/infinity.
C8_ShapeOnly ==
    (LexDone /\ ret.status = "ok") =>
        (ret.kind = "int" <=> IntegerShaped(ret.text))

\* C8 as amended: under target Integer or Either the value is an Integer iff
\* the literal has no decimal point and no exponent marker and is not
\* nan/inf/infinity, and a Float otherwise; under target Float every value is
\* a Float, whatever the literal's shape.
C8_ShapeUnlessFloatTarget ==
    (LexDone /\ ret.status = "ok") =>
        /\ ret.kind \in {"int", "float"}
        /\ call.target # "float" => (ret.kind = "int" <=> IntegerShaped(ret.text))
        /\ call.target = "float" => ret.kind = "float"

\* C8 witness: an integer-shaped literal was lexed with target Float.
C8_Witness ==
    /\ LexDone /\ ret.status = "ok" /\ call.target = "float"
    /\ IntegerShaped(ret.text)

-----------------------------------------------------------------------------
(* parse_ascii.c: the helpers of the list parsers                          *)

\* isspace() in the C locale (vertical tab as above).
isspace(c) == c \in {" ", "\t", "\n", "\f", "\r"}

\* ascii_line_comment stepping over the newline without looking for it.
RECURSIVE ascii_line_comment_past_end(_, _)
ascii_line_comment_past_end(b, p) ==
    IF p < Len(b) /\ At(b, p) # "\n"
    THEN IF At(b, p) = "\\" /\ p + 1 < Len(b) /\ At(b, p + 1) = "\n"
         THEN ascii_line_comment_past_end(b, p + 2)
         ELSE ascii_line_comment_past_end(b, p + 1)
    ELSE p + 1

\* The scan after "//": through the newline, or to the end.
RECURSIVE ascii_line_comment(_, _)
ascii_line_comment(b, p) ==
    IF p < Len(b) /\ At(b, p) # "\n"
    THEN IF At(b, p) = "\\" /\ p + 1 < Len(b) /\ At(b, p + 1) = "\n"
         THEN ascii_line_comment(b, p + 2)
         ELSE ascii_line_comment(b, p + 1)
    ELSE IF p < Len(b) /\ At(b, p) = "\n" THEN p + 1 ELSE p

\* The scan after "/*": past the "*/", or where while (p + 1 < end) gives up.
RECURSIVE ascii_block_comment(_, _)
ascii_block_comment(b, p) ==
    IF p + 1 < Len(b)
    THEN IF At(b, p) = "*" /\ At(b, p + 1) = "/"
         THEN p + 2
         ELSE ascii_block_comment(b, p + 1)
    ELSE p

RECURSIVE skip_whitespace_and_comments(_, _)
skip_whitespace_and_comments(b, p) ==
    IF p < Len(b)
    THEN IF isspace(At(b, p))
         THEN skip_whitespace_and_comments(b, p + 1)
         ELSE IF p + 1 < Len(b) /\ At(b, p) = "/" /\ At(b, p + 1) = "/"
         THEN skip_whitespace_and_comments(b, ascii_line_comment(b, p + 2))
         ELSE IF p + 1 < Len(b) /\ At(b, p) = "/" /\ At(b, p + 1) = "*"
         THEN skip_whitespace_and_comments(b, ascii_block_comment(b, p + 2))
         ELSE p
    ELSE p

\* A double: finite values are m * 10^e with m not a multiple of 10 (0 is
\* m = 0, e = 0), so two literals of equal value give equal records.  The
\* rounding of a long literal to 53 bits is beyond the literals of the model.
RECURSIVE Canonical(_, _)
Canonical(m, e) ==
    IF m = 0 THEN [cls |-> "finite", m |-> 0, e |-> 0]
    ELSE IF m % 10 = 0 THEN Canonical(m \div 10, e + 1)
    ELSE [cls |-> "finite", m |-> m, e |-> e]

NAN == [cls |-> "nan", m |-> 0, e |-> 0]
INFINITY == [cls |-> "inf", m |-> 1, e |-> 0]
MINUS_INFINITY == [cls |-> "inf", m |-> -1, e |-> 0]

RECURSIVE Pow10(_)
Pow10(n) == IF n = 0 THEN 1 ELSE 10 * Pow10(n - 1)

DigitValue ==
    [c \in Digits |->
        CASE c = "0" -> 0 [] c = "1" -> 1 [] c = "2" -> 2 [] c = "3" -> 3
          [] c = "4" -> 4 [] c = "5" -> 5 [] c = "6" -> 6 [] c = "7" -> 7
          [] c = "8" -> 8 [] c = "9" -> 9]

\* The value of the decimal digits b[from..to).
RECURSIVE DecimalValue(_, _, _)
DecimalValue(b, from, to) ==
    IF to <= from THEN 0
    ELSE 10 * DecimalValue(b, from, to - 1) + DigitValue[At(b, to - 1)]

\* strtoll(buffer, &endptr, 10) of an optional sign and digits.  It saturates
\* at LLONG_MAX / LLONG_MIN, beyond what the model's literals (at most
\* MaxListLen digits) reach.
strtoll(negative, magnitude) == IF negative THEN -magnitude ELSE magnitude

\* (long long)value of a double that holds an integer.
long_long(v) == v.m * Pow10(v.e)

\* sizeof(buffer) of parse_number's copy of the literal.
NumberBufferSize == 128

NoNumber == [ok |-> FALSE, next |-> -1, is_int |-> FALSE, value |-> NAN]

RECURSIVE after_isspace(_, _)
after_isspace(b, p) ==
    IF p < Len(b) /\ isspace(At(b, p)) THEN after_isspace(b, p + 1) ELSE p

\* parse_number(str, end, &result, &is_int): NULL, or the cursor after the
\* literal with *result and *is_int.
ascii_parse_number(b, str) ==
    LET p0 == after_isspace(b, str)
    IN  IF p0 >= Len(b) THEN NoNumber
        ELSE
        LET negative == At(b, p0) = "-"
            start == IF At(b, p0) \in {"-", "+"} THEN p0 + 1 ELSE p0
            i1 == digits_end(b, start)
            has_decimal == i1 < Len(b) /\ At(b, i1) = "."
            i2 == IF has_decimal THEN digits_end(b, i1 + 1) ELSE i1
            has_exp == i2 < Len(b) /\ At(b, i2) \in {"e", "E"}
            i3 == IF has_exp
                  THEN (IF i2 + 1 < Len(b) /\ At(b, i2 + 1) \in {"+", "-"}
                        THEN i2 + 2 ELSE i2 + 1)
                  ELSE i2
            p == IF has_exp THEN digits_end(b, i3) ELSE i2
            fraction == IF has_decimal THEN i2 - (i1 + 1) ELSE 0
            mantissa_digits == (i1 - start) + fraction
            mantissa == DecimalValue(b, start, i1) * Pow10(fraction)
                        + (IF has_decimal THEN DecimalValue(b, i1 + 1, i2) ELSE 0)
            exponent == IF has_exp
                        THEN (IF At(b, i3 - 1) = "-" THEN -1 ELSE 1) * DecimalValue(b, i3, p)
                        ELSE 0
        IN  IF start < Len(b) /\ MatchesNoCase(b, start, <<"n", "a", "n">>)
            THEN [ok |-> TRUE, next |-> start + 3, is_int |-> FALSE, value |-> NAN]
            ELSE IF start < Len(b) /\ MatchesNoCase(b, start, <<"i", "n", "f">>)
            THEN [ok |-> TRUE,
                  next |-> IF MatchesNoCase(b, start + 3, <<"i", "n", "i", "t", "y">>)
                           THEN start + 8 ELSE start + 3,
                  is_int |-> FALSE,
                  value |-> IF negative THEN MINUS_INFINITY ELSE INFINITY]
            ELSE IF p = start THEN NoNumber
            ELSE IF p - p0 >= NumberBufferSize THEN NoNumber
            ELSE IF ~(has_decimal \/ has_exp)
            THEN [ok |-> TRUE, next |-> p, is_int |-> TRUE,
                  value |-> Canonical(strtoll(negative, DecimalValue(b, start, i1)), 0)]
            \* strtod stops short of the end of the copy, or converts nothing,
            \* when the mantissa or the exponent has no digit.
            ELSE IF mantissa_digits = 0 \/ (has_exp /\ p = i3) THEN NoNumber
            ELSE [ok |-> TRUE, next |-> p, is_int |-> FALSE,
                  value |-> Canonical((IF negative THEN -1 ELSE 1) * mantissa,
                                      exponent - fraction)]

-----------------------------------------------------------------------------
(* parse_ascii_list                                                        *)

StartList(p, is_float, elshape) ==
    /\ Idle
    /\ call' = [NoArgs EXCEPT !.fn = "parse_ascii_list", !.start_pos = p,
                              !.is_float = is_float, !.elshape = elshape]
    /\ pc' = "list"
    /\ pos' = p
    /\ values' = <<>>
    /\ paren_depth' = 0
    /\ UNCHANGED <<contents, inside_face, ret>>

\* The error returns of the loops: p is where the cursor is then.
Raise(p, error) ==
    /\ pc' = "done"
    /\ pos' = p
    /\ ret' = error
    /\ UNCHANGED <<contents, call, values, paren_depth, inside_face>>

\* while (p < end) is false: on to the array.
ListLoopExit ==
    /\ pc = "list"
    /\ ~(pos < Len(contents))
    /\ pc' = "list_array"
    /\ UNCHANGED <<contents, call, pos, values, paren_depth, inside_face, ret>>

\* if (count % elshape != 0)
shape_mismatch_unchecked(count, elshape) == FALSE
shape_mismatch(count, elshape) == count % elshape # 0

\* if (*p == '(') { if (elshape == 0) ...
nested_in_scalar(c, elshape) == c = "(" /\ elshape = 0

\* if (*p == '{' || *p == '}' || *p == '[' || *p == ']' || *p == ';')
invalid_character_no_semicolon(c) == c \in {"{", "}", "[", "]"}
invalid_character(c) == c \in {"{", "}", "[", "]", ";"}

\* if (!is_float && !is_int_val)
type_mismatch_unchecked(is_float, is_int_val) == FALSE
type_mismatch(is_float, is_int_val) == ~is_float /\ ~is_int_val

\* One run of the body of while (p < end).
ListIteration ==
    /\ pc = "list"
    /\ pos < Len(contents)
    /\ LET p == skip_whitespace_and_comments(contents, pos)
           number == ascii_parse_number(contents, p)
       IN  IF p >= Len(contents)
           THEN Raise(p, ValueError("Unexpected end of input"))
           ELSE IF At(contents, p) = "("
           THEN IF nested_in_scalar(At(contents, p), call.elshape)
                THEN Raise(p, ValueError("Nested parentheses in scalar list"))
                ELSE /\ paren_depth' = paren_depth + 1
                     /\ pos' = p + 1
                     /\ UNCHANGED <<contents, call, pc, values, inside_face, ret>>
           ELSE IF At(contents, p) = ")"
           THEN IF paren_depth = 0
                THEN /\ pos' = p + 1
                     /\ pc' = "list_array"
                     /\ UNCHANGED <<contents, call, values, paren_depth, inside_face, ret>>
                ELSE /\ paren_depth' = paren_depth - 1
                     /\ pos' = p + 1
                     /\ UNCHANGED <<contents, call, pc, values, inside_face, ret>>
           ELSE IF invalid_character(At(contents, p))
           THEN Raise(p, ValueError("Invalid character for numeric list"))
           ELSE IF ~number.ok
           THEN Raise(p, ValueError("Unexpected character in numeric list"))
           ELSE IF type_mismatch(call.is_float, number.is_int)
           THEN Raise(p, ValueError("Found float value when parsing as integer"))
           ELSE /\ values' = Append(values, number.value)
                /\ pos' = number.next
                /\ UNCHANGED <<contents, call, pc, paren_depth, inside_face, ret>>

\* The same run of the body of while (p < end), as a function of the loop's
\* variables: how it ends, and p, paren_depth and values[] then.
list_iteration(b, p0, depth, vals, is_float, elshape) ==
    LET p == skip_whitespace_and_comments(b, p0)
        number == ascii_parse_number(b, p)
        at(next, q, d, vs, error) ==
            [next |-> next, pos |-> q, depth |-> d, values |-> vs, error |-> error]
        raise(msg) == at("raise", p, depth, vals, ValueError(msg))
    IN  IF p >= Len(b)
        THEN raise("Unexpected end of input")
        ELSE IF At(b, p) = "("
        THEN IF nested_in_scalar(At(b, p), elshape)
             THEN raise("Nested parentheses in scalar list")
             ELSE at("continue", p + 1, depth + 1, vals, NoRet)
        ELSE IF At(b, p) = ")"
        THEN IF depth = 0
             THEN at("break", p + 1, depth, vals, NoRet)
             ELSE at("continue", p + 1, depth - 1, vals, NoRet)
        ELSE IF invalid_character(At(b, p))
        THEN raise("Invalid character for numeric list")
        ELSE IF ~number.ok
        THEN raise("Unexpected character in numeric list")
        ELSE IF type_mismatch(is_float, number.is_int)
        THEN raise("Found float value when parsing as integer")
        ELSE at("continue", number.next, depth, Append(vals, number.value), NoRet)

\* The element written at array[i] (1-D) or array[i / elshape][i % elshape].
Element(vals, i, is_float) ==
    IF is_float THEN vals[i + 1] ELSE long_long(vals[i + 1])

\* The numpy array and the returned tuple (array, end_pos).
ListArray ==
    /\ pc = "list_array"
    /\ pc' = "done"
    /\ LET count == Len(values)
           elshape == call.elshape
       IN  ret' =
             IF elshape = 0
             THEN [NoRet EXCEPT
                     !.status = "ok", !.end = pos, !.dims = <<count>>,
                     !.array = [i \in 1..count |-> Element(values, i - 1, call.is_float)]]
             ELSE IF shape_mismatch(count, elshape)
             THEN ValueError("Number of values is not a multiple of element shape")
             ELSE [NoRet EXCEPT
                     !.status = "ok", !.end = pos,
                     !.dims = <<count \div elshape, elshape>>,
                     !.array = [r \in 1..(count \div elshape) |->
                                  [c \in 1..elshape |->
                                     Element(values, (r - 1) * elshape + (c - 1),
                                             call.is_float)]]]
    /\ UNCHANGED <<contents, call, pos, values, paren_depth, inside_face>>

-----------------------------------------------------------------------------
(* parse_ascii_faces_list                                                  *)

StartFaces(p) ==
    /\ Idle
    /\ call' = [NoArgs EXCEPT !.fn = "parse_ascii_faces_list", !.start_pos = p]
    /\ pc' = "faces"
    /\ pos' = p
    /\ values' = <<>>
    /\ inside_face' = FALSE
    /\ UNCHANGED <<contents, paren_depth, ret>>

FacesLoopExit ==
    /\ pc = "faces"
    /\ ~(pos < Len(contents))
    /\ pc' = "faces_array"
    /\ UNCHANGED <<contents, call, pos, values, paren_depth, inside_face, ret>>

\* "Not a number, skip this character": p++
skip_character_stay(p) == p
skip_character(p) == p + 1

FacesIteration ==
    /\ pc = "faces"
    /\ pos < Len(contents)
    /\ LET p == skip_whitespace_and_comments(contents, pos)
           number == ascii_parse_number(contents, p)
       IN  IF p >= Len(contents)
           THEN Raise(p, ValueError("Unexpected end of input"))
           ELSE IF At(contents, p) = "("
           THEN /\ inside_face' = TRUE
                /\ pos' = p + 1
                /\ UNCHANGED <<contents, call, pc, values, paren_depth, ret>>
           ELSE IF At(contents, p) = ")"
           THEN IF inside_face
                THEN /\ inside_face' = FALSE
                     /\ pos' = p + 1
                     /\ UNCHANGED <<contents, call, pc, values, paren_depth, ret>>
                ELSE /\ pos' = p + 1
                     /\ pc' = "faces_array"
                     /\ UNCHANGED <<contents, call, values, paren_depth, inside_face, ret>>
           ELSE IF ~number.ok
           THEN /\ pos' = skip_character(p)
                /\ UNCHANGED <<contents, call, pc, values, paren_depth, inside_face, ret>>
           ELSE IF ~number.is_int
           THEN Raise(p, ValueError("Expected integer in faces list"))
           ELSE /\ values' = Append(values, long_long(number.value))
                /\ pos' = number.next
                /\ UNCHANGED <<contents, call, pc, paren_depth, inside_face, ret>>

FacesArray ==
    /\ pc = "faces_array"
    /\ pc' = "done"
    /\ ret' = [NoRet EXCEPT !.status = "ok", !.end = pos, !.dims = <<Len(values)>>,
                            !.array = values]
    /\ UNCHANGED <<contents, call, pos, values, paren_depth, inside_face>>

\* The same run of the body of while (p < end), as a function of the loop's
\* variables: how it ends, and p, inside_face and values[] then.
faces_iteration(b, p0, inside, vals) ==
    LET p == skip_whitespace_and_comments(b, p0)
        number == ascii_parse_number(b, p)
        at(next, q, in, vs, error) ==
            [next |-> next, pos |-> q, inside |-> in, values |-> vs, error |-> error]
    IN  IF p >= Len(b)
        THEN at("raise", p, inside, vals, ValueError("Unexpected end of input"))
        ELSE IF At(b, p) = "("
        THEN at("continue", p + 1, TRUE, vals, NoRet)
        ELSE IF At(b, p) = ")"
        THEN IF inside
             THEN at("continue", p + 1, FALSE, vals, NoRet)
             ELSE at("break", p + 1, inside, vals, NoRet)
        ELSE IF ~number.ok
        THEN at("continue", skip_character(p), inside, vals, NoRet)
        ELSE IF ~number.is_int
        THEN at("raise", p, inside, vals, ValueError("Expected integer in faces list"))
        ELSE at("continue", number.next, inside, Append(vals, long_long(number.value)),
                NoRet)

\* The loop from p on, and the array.
RECURSIVE faces_loop(_, _, _, _)
faces_loop(b, p, inside, vals) ==
    LET it == faces_iteration(b, p, inside, vals)
        array(q, vs) ==
            [NoRet EXCEPT !.status = "ok", !.end = q, !.dims = <<Len(vs)>>, !.array = vs]
    IN  IF ~(p < Len(b)) THEN array(p, vals)
        ELSE CASE it.next = "continue" -> faces_loop(b, it.pos, it.inside, it.values)
               [] it.next = "break" -> array(it.pos, it.values)
               [] OTHER -> it.error

\* The whole call parse_ascii_faces_list(contents, pos).
parse_ascii_faces_list(b, start_pos) == faces_loop(b, start_pos, FALSE, <<>>)

ElementShapes == {0, 1, 2}

InitList ==
    /\ contents \in BuffersOf(ListAlphabet, MaxListLen)
    /\ call = NoArgs
    /\ pc = "idle"
    /\ pos = 0
    /\ values = <<>>
    /\ paren_depth = 0
    /\ inside_face = FALSE
    /\ ret = NoRet
    /\ TablesBuilt

NextList ==
    /\ UNCHANGED table_vars
    /\ \/ \E p \in 0..Len(contents), is_float \in BOOLEAN, elshape \in ElementShapes :
             StartList(p, is_float, elshape)
       \/ ListLoopExit
       \/ ListIteration
       \/ ListArray
       \/ \E p \in 0..Len(contents) : StartFaces(p)
       \/ FacesLoopExit
       \/ FacesIteration
       \/ FacesArray

SpecList == InitList /\ [][NextList]_vars

\* The list parsers on buffers that hold the bytes no numeric list may hold.
InitStruct ==
    /\ contents \in BuffersOf(StructAlphabet, MaxStructLen)
    /\ call = NoArgs
    /\ pc = "idle"
    /\ pos = 0
    /\ values = <<>>
    /\ paren_depth = 0
    /\ inside_face = FALSE
    /\ ret = NoRet
    /\ TablesBuilt

SpecStruct == InitStruct /\ [][NextList]_vars

\* The list parsers on buffers of literals, signs and exponent markers.
InitTok ==
    /\ contents \in BuffersOf(TokAlphabet, MaxTokLen)
    /\ call = NoArgs
    /\ pc = "idle"
    /\ pos = 0
    /\ values = <<>>
    /\ paren_depth = 0
    /\ inside_face = FALSE
    /\ ret = NoRet
    /\ TablesBuilt

SpecTok == InitTok /\ [][NextList]_vars

-----------------------------------------------------------------------------
(* The indices of contents that a step reads, test by test as the code     *)
(* guards them.                                                            *)

\* contents[i] where the buffer has a byte, and no byte of any buffer where
\* it has none.
Peek(b, i) == IF i \in 0..(Len(b) - 1) THEN b[i + 1] ELSE ""

\* while (pos < len && <c is whitespace>) pos++, of both skips.
RECURSIVE whitespace_reads(_, _, _)
whitespace_reads(b, p, newline_ok) ==
    IF p < Len(b)
    THEN {p} \cup (IF skip_is_space(Peek(b, p), newline_ok)
                   THEN whitespace_reads(b, p + 1, newline_ok)
                   ELSE {})
    ELSE {}

\* The scan after "//" (the three functions test the same bytes).
RECURSIVE line_comment_reads(_, _)
line_comment_reads(b, p) ==
    IF p < Len(b)
    THEN {p} \cup
         (IF Peek(b, p) = "\n" THEN {}
          ELSE IF Peek(b, p) = "\\" /\ p + 1 < Len(b)
          THEN {p + 1} \cup line_comment_reads(b, IF Peek(b, p + 1) = "\n"
                                                  THEN p + 2 ELSE p + 1)
          ELSE line_comment_reads(b, p + 1))
    ELSE {}

\* The scan after "/*" (the three functions test the same bytes).
RECURSIVE block_comment_reads(_, _)
block_comment_reads(b, p) ==
    IF p + 1 < Len(b)
    THEN {p, p + 1} \cup (IF Peek(b, p) = "*" /\ Peek(b, p + 1) = "/"
                          THEN {}
                          ELSE block_comment_reads(b, p + 1))
    ELSE {}

\* One iteration of skip's while (1).
skip_iteration_reads(b, p0, newline_ok) ==
    LET p == skip_whitespace(b, p0, newline_ok)
    IN  whitespace_reads(b, p0, newline_ok) \cup
        (IF p + 1 >= Len(b) THEN {}
         ELSE {p, p + 1} \cup
              (IF Peek(b, p) = "/" /\ Peek(b, p + 1) = "/"
               THEN line_comment_reads(b, p + 2)
               ELSE IF Peek(b, p) = "/" /\ Peek(b, p + 1) = "*"
               THEN block_comment_reads(b, p + 2)
               ELSE {}))

\* The test of skip.c's while (pos < len) and one run of its body.
skip_c_iteration_reads(b, p0, newline_ok) ==
    IF ~(p0 < Len(b)) THEN {} ELSE skip_iteration_reads(b, p0, newline_ok)

\* while (end < len && is_numeric[contents[end]]) end++;
RECURSIVE numeric_run_reads(_, _, _)
numeric_run_reads(b, end, target) ==
    IF end < Len(b)
    THEN {end} \cup (IF Peek(b, end) \in is_numeric(target)
                     THEN numeric_run_reads(b, end + 1, target)
                     ELSE {})
    ELSE {}

\* The number lexer: the run, the byte after it, and the bytes of the literal.
parse_number_reads(b, p, target) ==
    LET end == numeric_run_end(b, p, target)
    IN  numeric_run_reads(b, p, target)
        \cup (IF end < Len(b) THEN {end} ELSE {})
        \cup (p..(end - 1))

RECURSIVE skip_whitespace_and_comments_reads(_, _)
skip_whitespace_and_comments_reads(b, p) ==
    IF p < Len(b)
    THEN {p} \cup
         (IF isspace(Peek(b, p))
          THEN skip_whitespace_and_comments_reads(b, p + 1)
          ELSE IF p + 1 < Len(b)
          THEN {p + 1} \cup
               (IF Peek(b, p) = "/" /\ Peek(b, p + 1) = "/"
                THEN line_comment_reads(b, p + 2)
                     \cup skip_whitespace_and_comments_reads(
                              b, ascii_line_comment(b, p + 2))
                ELSE IF Peek(b, p) = "/" /\ Peek(b, p + 1) = "*"
                THEN block_comment_reads(b, p + 2)
                     \cup skip_whitespace_and_comments_reads(
                              b, ascii_block_comment(b, p + 2))
                ELSE {})
          ELSE {})
    ELSE {}

\* while (p < end && isspace(*p)) p++;
RECURSIVE isspace_reads(_, _)
isspace_reads(b, p) ==
    IF p < Len(b)
    THEN {p} \cup (IF isspace(Peek(b, p)) THEN isspace_reads(b, p + 1) ELSE {})
    ELSE {}

\* while (p < end && isdigit(*p)) p++;
RECURSIVE isdigit_reads(_, _)
isdigit_reads(b, p) ==
    IF p < Len(b)
    THEN {p} \cup (IF Peek(b, p) \in Digits THEN isdigit_reads(b, p + 1) ELSE {})
    ELSE {}

\* parse_number(str, end, ...) of parse_ascii.c.
ascii_parse_number_reads(b, str) ==
    LET p0 == after_isspace(b, str)
        start == IF Peek(b, p0) \in {"-", "+"} THEN p0 + 1 ELSE p0
        nan == start < Len(b) /\ MatchesNoCase(b, start, <<"n", "a", "n">>)
        inf == start < Len(b) /\ MatchesNoCase(b, start, <<"i", "n", "f">>)
        i1 == digits_end(b, start)
        has_decimal == i1 < Len(b) /\ Peek(b, i1) = "."
        i2 == IF has_decimal THEN digits_end(b, i1 + 1) ELSE i1
        has_exp == i2 < Len(b) /\ Peek(b, i2) \in {"e", "E"}
        i3 == IF has_exp
              THEN (IF i2 + 1 < Len(b) /\ Peek(b, i2 + 1) \in {"+", "-"}
                    THEN i2 + 2 ELSE i2 + 1)
              ELSE i2
        p == IF has_exp THEN digits_end(b, i3) ELSE i2
        words == IF start < Len(b)
                 THEN (IF start + 3 <= Len(b) THEN start..(start + 2) ELSE {})
                      \cup (IF inf /\ start + 8 <= Len(b)
                            THEN (start + 3)..(start + 7) ELSE {})
                 ELSE {}
        literal == isdigit_reads(b, start)
                   \cup (IF i1 < Len(b) THEN {i1} ELSE {})
                   \cup (IF has_decimal THEN isdigit_reads(b, i1 + 1) ELSE {})
                   \cup (IF i2 < Len(b) THEN {i2} ELSE {})
                   \cup (IF has_exp
                         THEN (IF i2 + 1 < Len(b) THEN {i2 + 1} ELSE {})
                              \cup isdigit_reads(b, i3)
                         ELSE {})
                   \cup (IF p # start THEN p0..(p - 1) ELSE {})
    IN  isspace_reads(b, str)
        \cup (IF p0 >= Len(b) THEN {}
              ELSE {p0} \cup words \cup (IF nan \/ inf THEN {} ELSE literal))

\* One run of the body of parse_ascii_list's while (p < end).
list_iteration_reads(b, p0) ==
    LET p == skip_whitespace_and_comments(b, p0)
    IN  skip_whitespace_and_comments_reads(b, p0)
        \cup (IF p >= Len(b) THEN {}
              ELSE {p} \cup (IF Peek(b, p) \in {"(", ")"} \/ invalid_character(Peek(b, p))
                             THEN {}
                             ELSE ascii_parse_number_reads(b, p)))

\* One run of the body of parse_ascii_faces_list's while (p < end).
faces_iteration_reads(b, p0) ==
    LET p == skip_whitespace_and_comments(b, p0)
    IN  skip_whitespace_and_comments_reads(b, p0)
        \cup (IF p >= Len(b) THEN {}
              ELSE {p} \cup (IF Peek(b, p) \in {"(", ")"}
                             THEN {}
                             ELSE ascii_parse_number_reads(b, p)))

-----------------------------------------------------------------------------
(* Properties of the list parsers.                                         *)

ListFunctions == {"parse_ascii_list", "parse_ascii_faces_list"}

ListDone == pc = "done" /\ call.fn \in ListFunctions

\* C1: the list parsers never return successfully unless the terminating ")"
\* has been consumed: a successful call's end position is just past a ")" at
\* or after start_pos; a buffer that ends first is an error.
C1_EndOfInputFails ==
    (ListDone /\ ret.status = "ok") =>
        /\ ret.end > call.start_pos
        /\ At(contents, ret.end - 1) = ")"

\* C2: a list parser's call fails when the first thing after start_pos, past
\* whitespace, is a "/*" with no "*/" after it before the end of the buffer.
C2_UnterminatedCommentFails ==
    (ListDone /\ LET o == FirstNonSpace(contents, call.start_pos, TRUE)
                 IN  /\ OpenerAt(contents, o, "/", "*")
                     /\ BlockClosers(contents, o + 2) = {})
        => ret.status # "ok"

\* C9: a successful parse_ascii_list ends just past a ")" and returns the
\* values it appended, in order: 1-D of length count when elshape is 0, else
\* count/elshape rows of elshape columns in row-major order.
C9_ListResult ==
    (pc = "done" /\ call.fn = "parse_ascii_list" /\ ret.status = "ok") =>
        LET count == Len(values)
            n == call.elshape
            flat == [i \in 1..count |->
                        IF call.is_float THEN values[i] ELSE long_long(values[i])]
        IN  /\ ret.end > call.start_pos
            /\ At(contents, ret.end - 1) = ")"
            /\ n = 0 => (ret.dims = <<count>> /\ ret.array = flat)
            /\ n > 0 =>
                /\ ret.dims = <<count \div n, n>>
                /\ Len(ret.array) * n = count
                /\ \A r \in 1..Len(ret.array) :
                      ret.array[r] = SubSeq(flat, (r - 1) * n + 1, r * n)

\* C10: with elshape > 0, parse_ascii_list makes the 2-D array exactly when
\* the count of parsed values is a multiple of elshape, and otherwise fails
\* with the shape-mismatch error and no array.
C10_ShapeChecked ==
    [][ (pc = "list_array" /\ call.elshape > 0) =>
        LET count == Len(values)
        IN  IF count % call.elshape = 0
            THEN /\ ret'.status = "ok"
                 /\ ret'.dims = <<count \div call.elshape, call.elshape>>
                 /\ Len(ret'.array) = count \div call.elshape
                 /\ \A r \in 1..Len(ret'.array) : Len(ret'.array[r]) = call.elshape
            ELSE ret' = ValueError("Number of values is not a multiple of element shape")
      ]_vars

\* C10 witness: one value was parsed for elshape 2 and the call failed with
\* the shape-mismatch error.
C10_Witness ==
    /\ pc = "done" /\ call.fn = "parse_ascii_list" /\ call.elshape = 2
    /\ Len(values) = 1
    /\ ret = ValueError("Number of values is not a multiple of element shape")

TypeMismatch == ValueError("Found float value when parsing as integer")

\* The literal the number lexer's rules give at p is a float: it has a
\* decimal point or an exponent, or is nan, inf or infinity.
FloatLiteralAt(b, p) ==
    LET lexed == parse_number(b, p, "int_or_float")
    IN  lexed.status = "ok" /\ lexed.kind = "float"

\* C11: with is_float false, parse_ascii_list fails with the type-mismatch
\* error as soon as the literal at the token position is a float; every value
\* it appends is that of an integer-shaped literal, so a successful integer
\* list holds only such values.
C11_IntegerListRefusesFloat ==
    [][ (pc = "list" /\ pos < Len(contents) /\ ~call.is_float) =>
        LET p == skip_whitespace_and_comments(contents, pos)
        IN  /\ (p < Len(contents) /\ FloatLiteralAt(contents, p)) =>
                /\ pc' = "done"
                /\ ret' = TypeMismatch
            /\ values' # values =>
                LET text == SubSeq(contents, p + 1, pos')
                    digits == AfterSign(text, 0)
                IN  /\ values' = Append(values, values'[Len(values')])
                    /\ IntegerShaped(text)
                    /\ PyLong_FromString_ok(text)
                    /\ long_long(values'[Len(values')]) =
                          (IF text[1] = "-" THEN -1 ELSE 1)
                          * DecimalValue(text, digits, Len(text))
      ]_vars

\* C11 witness: an integer list was refused at a float literal after an
\* integer had been appended.
C11_Witness ==
    /\ pc = "done" /\ call.fn = "parse_ascii_list" /\ ~call.is_float
    /\ Len(values) >= 1
    /\ ret = TypeMismatch

\* C12: parse_ascii_list fails with the structural error, and returns
\* nothing, whenever the byte at the token position is "(" while elshape is 0,
\* or is one of "{", "}", "[", "]", ";" whatever elshape is.
C12_StructuralError ==
    [][ (pc = "list" /\ pos < Len(contents)) =>
        LET p == FirstNonSpace(contents, pos, TRUE)
        IN  p < Len(contents) =>
              /\ (At(contents, p) = "(" /\ call.elshape = 0) =>
                    /\ pc' = "done"
                    /\ ret' = ValueError("Nested parentheses in scalar list")
              /\ At(contents, p) \in {"{", "}", "[", "]", ";"} =>
                    /\ pc' = "done"
                    /\ ret' = ValueError("Invalid character for numeric list")
      ]_vars

\* C12 witness: inside a nested element, after a value, a ";" was refused.
C12_Witness ==
    /\ pc = "done" /\ call.fn = "parse_ascii_list" /\ call.elshape > 0
    /\ paren_depth = 1 /\ Len(values) = 1
    /\ At(contents, Len(contents) - 1) = ";"
    /\ ret = ValueError("Invalid character for numeric list")

\* The indices from from up to (not including) to that hold ")" with as many
\* "(" as ")" before them since from.
RECURSIVE OuterClosers(_, _, _, _)
OuterClosers(b, from, to, inside) ==
    IF from >= to THEN {}
    ELSE IF At(b, from) = "(" THEN OuterClosers(b, from + 1, to, TRUE)
    ELSE IF At(b, from) = ")"
    THEN (IF inside THEN {} ELSE {from}) \cup OuterClosers(b, from + 1, to, FALSE)
    ELSE OuterClosers(b, from + 1, to, inside)

\* C13: a successful parse_ascii_faces_list returns the integers it met, in
\* the order met, as one flat array, and its end position is just past the
\* first ")" met outside a sublist.
C13_FacesResult ==
    (pc = "done" /\ call.fn = "parse_ascii_faces_list" /\ ret.status = "ok") =>
        /\ ret.array = values
        /\ ret.dims = <<Len(values)>>
        /\ ret.end > call.start_pos
        /\ At(contents, ret.end - 1) = ")"
        /\ (ret.end - 1) \in OuterClosers(contents, call.start_pos, ret.end, FALSE)

\* A token starts at i: a byte that is neither whitespace nor a parenthesis,
\* at from or after a byte that is one.
TokenStartsAt(b, i, from) ==
    LET delimiters == SpecWhitespace(TRUE) \cup {"(", ")"}
    IN  /\ At(b, i) \notin delimiters
        /\ (i = from \/ At(b, i - 1) \in delimiters)

\* C17: parse_ascii_list reads its values by the number lexer's rules: in a
\* successful parse every token of the bytes consumed is a literal the number
\* lexer accepts, so a literal that a token-continuation byte follows ("1-2)",
\* "1.5.3)", "1+2)") makes the call fail.  (On buffers without comments, and
\* of the calls that consumed their ")", so whatever C1's end of input does.)
C17_LexerRules ==
    (pc = "done" /\ call.fn = "parse_ascii_list" /\ ret.status = "ok"
     /\ ret.end > call.start_pos /\ At(contents, ret.end - 1) = ")") =>
        \A i \in call.start_pos..(ret.end - 1) :
            TokenStartsAt(contents, i, call.start_pos) =>
                parse_number(contents, i, "int_or_float").status = "ok"

\* The "e" or "E" at i is the exponent marker of a literal: a digit or a
\* point before it, and a digit after it and its optional sign.
ExponentMarkerAt(b, i) ==
    /\ i > 0 /\ At(b, i - 1) \in Digits \cup {"."}
    /\ LET j == AfterSign(b, i + 1) IN j < Len(b) /\ At(b, j) \in Digits

\* The byte at i is a letter that is no part of a numeric literal (the letters
\* of the model's buffers spell no nan and no inf).
JunkAt(b, i) ==
    /\ At(b, i) \in LowerLetters \cup UpperLetters
    /\ ~ExponentMarkerAt(b, i)

\* C18: parse_ascii_faces_list skips a byte that is no parenthesis and starts
\* no literal as it skips a space: the call's outcome and its values are those
\* of the call on the buffer with a space written over that byte, and the
\* digits next to the byte are not lost ("12e 3)" gives what "12  3)" gives).
\* (Of the calls that consumed their outer ")", so whatever C1's end of input
\* does.)
C18_SkippedByteIsSpace ==
    (pc = "done" /\ call.fn = "parse_ascii_faces_list" /\ ret.status = "ok"
     /\ ret.end > call.start_pos /\ At(contents, ret.end - 1) = ")") =>
        \A i \in call.start_pos..(ret.end - 1) :
            JunkAt(contents, i) =>
                LET spaced == parse_ascii_faces_list([contents EXCEPT ![i + 1] = " "],
                                                    call.start_pos)
                IN  /\ spaced.status = ret.status
                    /\ spaced.array = ret.array
                    /\ spaced.end = ret.end

\* The action's iterations and the function of the loop's variables agree.
FacesLoopAgrees ==
    (pc = "done" /\ call.fn = "parse_ascii_faces_list") =>
        ret = parse_ascii_faces_list(contents, call.start_pos)

-----------------------------------------------------------------------------
(* All the operations, on any of the buffers.                              *)

\* Buffers of comments, line continuations, literals and a terminator, for
\* every operation.
InitCursor ==
    /\ contents \in BuffersOf(CursorAlphabet, MaxCursorLen)
    /\ call = NoArgs
    /\ pc = "idle"
    /\ pos = 0
    /\ values = <<>>
    /\ paren_depth = 0
    /\ inside_face = FALSE
    /\ ret = NoRet
    /\ TablesBuilt

Init ==
    InitSkip \/ InitLex \/ InitList \/ InitStruct \/ InitTok \/ InitCursor \/ InitTables

Next == NextSkip \/ NextLex \/ NextList \/ NextTables

Spec == Init /\ [][Next]_vars

\* Every operation, one call at a time.
NextCall == NextSkip \/ NextLex \/ NextList

SpecCursor == InitCursor /\ [][NextCall]_vars

-----------------------------------------------------------------------------
(* Properties of every operation's cursor.                                 *)

\* C15: in a call of skip, parse_number, parse_ascii_list or
\* parse_ascii_faces_list started at 0 <= pos <= len, every step leaves the
\* cursor where it was or further, between the start position and len, the
\* position returned is there too, and every byte the step reads is at an
\* index of 0..len-1.
C15_CursorInBounds ==
    [][ /\ call'.start_pos <= pos' /\ pos' <= Len(contents)
        /\ pc # "idle" => pos' >= pos
        /\ ret'.status = "ok" =>
              (call'.start_pos <= ret'.end /\ ret'.end <= Len(contents))
        /\ (CASE pc = "skip" -> skip_iteration_reads(contents, pos, call.newline_ok)
              [] pc = "skip_c" -> skip_c_iteration_reads(contents, pos, call.newline_ok)
              [] pc = "list" /\ pos < Len(contents) -> list_iteration_reads(contents, pos)
              [] pc = "faces" /\ pos < Len(contents) -> faces_iteration_reads(contents, pos)
              [] pc = "idle" /\ call'.fn = "parse_number" ->
                    parse_number_reads(contents, call'.start_pos, call'.target)
              [] OTHER -> {})
            \subseteq 0..(Len(contents) - 1)
      ]_vars

\* C15 witness: a list parser's comment ran through a line continuation to the
\* last byte of the buffer, and the call ended with the cursor at len.
C15_Witness ==
    /\ pc = "done" /\ call.fn \in ListFunctions
    /\ OpenerAt(contents, call.start_pos, "/", "/")
    /\ Len(contents) >= call.start_pos + 4
    /\ At(contents, Len(contents) - 2) = "\\"
    /\ At(contents, Len(contents) - 1) = "\n"
    /\ pos = Len(contents)

\* The iterations as actions and as functions of the loops' variables agree.
IterationsAgree ==
    [][ /\ (pc = "list" /\ pos < Len(contents)) =>
              LET it == list_iteration(contents, pos, paren_depth, values,
                                       call.is_float, call.elshape)
              IN  /\ pos' = it.pos /\ paren_depth' = it.depth /\ values' = it.values
                  /\ pc' = CASE it.next = "continue" -> pc
                              [] it.next = "break" -> "list_array"
                              [] OTHER -> "done"
                  /\ ret' = IF it.next = "raise" THEN it.error ELSE ret
        /\ (pc = "faces" /\ pos < Len(contents)) =>
              LET it == faces_iteration(contents, pos, inside_face, values)
              IN  /\ pos' = it.pos /\ inside_face' = it.inside /\ values' = it.values
                  /\ pc' = CASE it.next = "continue" -> pc
                              [] it.next = "break" -> "faces_array"
                              [] OTHER -> "done"
                  /\ ret' = IF it.next = "raise" THEN it.error ELSE ret
      ]_vars

\* The iteration ends the loop or leaves the cursor further on.
Advances(it) == it.next # "continue" \/ it.pos > pos

\* C16: every call of skip, parse_ascii_list and parse_ascii_faces_list
\* terminates: the cursor is at most len, and every iteration of the outer
\* loop moves the cursor forward or leaves the loop.
C16_EveryIterationAdvances ==
    /\ pos <= Len(contents)
    /\ pc = "skip" => Advances(skip_iteration(contents, pos, call.newline_ok))
    /\ pc = "skip_c" => Advances(skip_c_iteration(contents, pos, call.newline_ok))
    /\ (pc = "list" /\ pos < Len(contents)) =>
          Advances(list_iteration(contents, pos, paren_depth, values,
                                  call.is_float, call.elshape))
    /\ (pc = "faces" /\ pos < Len(contents)) =>
          Advances(faces_iteration(contents, pos, inside_face, values))

\* C16 witness: parse_ascii_faces_list skipped a byte that starts no number
\* and is in its loop, further on, with bytes left.
C16_Witness ==
    /\ pc = "faces" /\ call.fn = "parse_ascii_faces_list"
    /\ pos = call.start_pos + 1 /\ pos < Len(contents)
    /\ At(contents, call.start_pos) \in {"*", "\\"}
    /\ values = <<>>

-----------------------------------------------------------------------------
(* Properties of skip.c's tables under concurrent calls.                   *)

\* C14: the tables are built once and not written afterwards: whatever the
\* interleaving of the threads' calls, the entry a call reads is the entry of
\* the built table, and with newline_ok false the newline's entry is 0.
C14_LookupReadsBuiltTable ==
    \A t \in Threads :
        threads[t].pc = "looked" =>
            threads[t].entry =
                (IF threads[t].byte \in ws_table(threads[t].newline_ok) THEN 1 ELSE 0)

====
